---- MODULE Spec2Model ----
(***************************************************************************)
(* Model of the request-validation-and-response pipeline of the           *)
(* customer-form service: the response helpers (res.success / res.error), *)
(* the ServiceResponse classification, the zod request schemas, the       *)
(* validateRequestSchema middleware, createRouteHandler and the five      *)
(* customer-form controllers with their services.                         *)
(***************************************************************************)
EXTENDS Integers, Sequences, FiniteSets, TLC

(***************************************************************************)
(* Bounds of the model.                                                    *)
(***************************************************************************)
\* number of requests the server receives in one behaviour
NumReqs == 2

(***************************************************************************)
(* Status codes used by the program.                                       *)
(***************************************************************************)
SuccessOK == 200
SuccessCreated == 201
ClientErrorBadRequest == 400
ClientErrorNotFound == 404
ClientErrorUnprocessableEntity == 422
ServerErrorInternal == 500

(***************************************************************************)
(* JavaScript values.  Every value is a record of one shape, so that any   *)
(* two values can be compared: t is the type tag, s the text of a string,  *)
(* of a boolean or the name of an opaque object, n the number.             *)
(***************************************************************************)
Undef == [t |-> "undefined", s |-> <<>>, n |-> 0]
Null == [t |-> "null", s |-> <<>>, n |-> 0]
\* a string is the sequence of its pieces; ":" is always a piece of its own
\* and the empty string is the empty sequence
Text(pieces) == [t |-> "string", s |-> pieces, n |-> 0]
Str(x) == Text(IF x = "" THEN <<>> ELSE <<x>>)
Num(k) == [t |-> "number", s |-> <<>>, n |-> k]
NaN == [t |-> "number", s |-> <<"NaN">>, n |-> 0]
Bool(b) == [t |-> "boolean", s |-> IF b THEN <<"true">> ELSE <<"false">>, n |-> 0]
Obj(name) == [t |-> "object", s |-> <<name>>, n |-> 0]

\* JavaScript truthiness: undefined, null, "", 0, NaN and false are falsy
Truthy(v) ==
  CASE v.t = "undefined" -> FALSE
    [] v.t = "null" -> FALSE
    [] v.t = "string" -> v.s # <<>>
    [] v.t = "number" -> v.s # <<"NaN">> /\ v.n # 0
    [] v.t = "boolean" -> v.s = <<"true">>
    [] OTHER -> TRUE

(***************************************************************************)
(* res.success and res.error (res-utils.middleware.ts).  A call yields the *)
(* response it sends: the status and the keys of the serialized body.      *)
(* "...(data && { data })" adds the data key when data is truthy.          *)
(***************************************************************************)
Body(ok, message, data) ==
  [success |-> ok, message |-> message, hasData |-> Truthy(data),
   data |-> IF Truthy(data) THEN data ELSE Undef]

success(statusCodeOrMessage, messageOrData, data) ==
  IF statusCodeOrMessage.t = "number"
    THEN [status |-> statusCodeOrMessage, body |-> Body(TRUE, messageOrData, data)]
    ELSE [status |-> Num(SuccessOK),
          body |-> Body(TRUE, statusCodeOrMessage, messageOrData)]

error(statusCode, message, data) ==
  [status |-> statusCode, body |-> Body(FALSE, message, data)]

(***************************************************************************)
(* ServiceResponse and its three subclasses (service-response.ts).  cls is *)
(* the class of the instance, which is what instanceof reads.  A default   *)
(* parameter value is taken when the argument is undefined.                *)
(***************************************************************************)
Default(arg, dflt) == IF arg = Undef THEN dflt ELSE arg

ServiceResponse(cls, ok, statusCode, message, data) ==
  [cls |-> cls, success |-> ok, statusCode |-> statusCode, message |-> message,
   data |-> data, hasError |-> FALSE, error |-> Undef]

ServiceSuccess(data, message, statusCode) ==
  ServiceResponse("ServiceSuccess", TRUE, Default(statusCode, Num(SuccessOK)),
                  Default(message, Str("Operation successful")), data)

\* ServiceFailure calling super(true, ...)
ServiceFailureFlaggedSuccess(message, statusCode, data) ==
  ServiceResponse("ServiceFailure", TRUE,
                  Default(statusCode, Num(ClientErrorBadRequest)), message,
                  Default(data, Null))

ServiceFailure(message, statusCode, data) ==
  ServiceResponse("ServiceFailure", FALSE,
                  Default(statusCode, Num(ClientErrorBadRequest)), message,
                  Default(data, Null))

\* ServiceException with the default status code of ServiceFailure
ServiceExceptionDefaultsTo400(message, statusCode, err, data) ==
  LET base == ServiceResponse("ServiceException", FALSE,
                              Default(statusCode, Num(ClientErrorBadRequest)),
                              message, Default(data, Null))
  IN IF Truthy(err) THEN [base EXCEPT !.hasError = TRUE, !.error = err] ELSE base

ServiceException(message, statusCode, err, data) ==
  LET base == ServiceResponse("ServiceException", FALSE,
                              Default(statusCode, Num(ServerErrorInternal)),
                              message, Default(data, Null))
  IN IF Truthy(err) THEN [base EXCEPT !.hasError = TRUE, !.error = err] ELSE base

isSuccess(r) == r.success = TRUE
isUnsuccessful(r) == r.success = FALSE
isFailure(r) == r.cls = "ServiceFailure"
isException(r) == r.cls = "ServiceException"

\* the serviceResponse helper object: each helper passes its arguments on
serviceResponse_success(data, message, statusCode) ==
  ServiceSuccess(data, message, statusCode)
serviceResponse_failure(message, statusCode, data) ==
  ServiceFailure(message, statusCode, data)
serviceResponse_exception(message, statusCode, err, data) ==
  ServiceException(message, statusCode, err, data)

(***************************************************************************)
(* The zod schemas (common.schemas / customer-form.schemas).  A facet of a *)
(* request (params, query, body) is an object over the keys Fields; a key  *)
(* the object does not have reads as undefined.  A sub-schema is a         *)
(* z.object: it gives every key the kind of schema that parses it, "none"  *)
(* for a key it does not declare (z.object strips such keys).              *)
(***************************************************************************)
Fields ==
  {"id", "page", "limit", "status", "isEligible", "sortBy", "sortOrder", "notes",
   "basicInformation", "businessDetails", "servicesNeeded", "clientScreening",
   "additionalDetails"}

\* the order in which z.object reports the issues of its keys
FieldOrder ==
  <<"id", "page", "limit", "status", "notes", "basicInformation", "businessDetails",
    "servicesNeeded", "clientScreening", "additionalDetails", "isEligible",
    "sortBy", "sortOrder">>

EmptyObject == [f \in Fields |-> Undef]
ObjectOf(o) == [f \in Fields |-> IF f \in DOMAIN o THEN o[f] ELSE Undef]

\* the strings that match /^[0-9a-fA-F]{24}$/ among the strings of the model
ObjectIds == {"oidA", "oidB"}
CustomerFormStatus == {"PENDING", "APPROVED", "REJECTED"}

\* parseInt(val, 10) on the trimmed strings of the model
parseInt(v) ==
  CASE v.s = <<"1">> -> Num(1)
    [] v.s = <<"2">> -> Num(2)
    [] v.s = <<"0">> -> Num(0)
    [] OTHER -> NaN

Pass(v) == [ok |-> TRUE, out |-> v, issue |-> <<>>]
Fail(issue) == [ok |-> FALSE, out |-> Undef, issue |-> issue]
\* zod's issue for a value of the wrong type
InvalidType(expected, v) ==
  IF v = Undef THEN Fail(<<"Required">>)
  ELSE Fail(<<"Expected ", expected, ", received ", v.t>>)
InvalidEnum(expected, v) ==
  Fail(<<"Invalid enum value. Expected ", expected, ", received '">> \o v.s \o <<"'">>)

positiveIntegerParam(v) ==
  IF v.t # "string" THEN InvalidType("string", v)
  ELSE LET val == parseInt(v)
       IN IF val # NaN /\ val.n > 0 THEN Pass(val)
          ELSE Fail(<<"Value must be a positive integer">>)

booleanParam(v) ==
  CASE v = Str("true") -> Pass(Bool(TRUE))
    [] v = Str("false") -> Pass(Bool(FALSE))
    [] v.t = "boolean" -> Pass(v)
    [] OTHER -> Fail(<<"Invalid input">>)

objectIdParam(v) ==
  IF v.t # "string" THEN InvalidType("string", v)
  ELSE IF v.s \in {<<i>> : i \in ObjectIds} THEN Pass(v)
  ELSE Fail(<<"Invalid ObjectId format">>)

sortOrderSchema(v) ==
  IF v = Undef THEN Pass(Str("desc"))
  ELSE IF v \in {Str("asc"), Str("desc")} THEN Pass(v)
  ELSE IF v.t # "string" THEN InvalidType("'asc' | 'desc'", v)
  ELSE InvalidEnum("'asc' | 'desc'", v)

zBoolean(v) == IF v.t = "boolean" THEN Pass(v) ELSE InvalidType("boolean", v)
zString(v) == IF v.t = "string" THEN Pass(v) ELSE InvalidType("string", v)
zStatus(v) ==
  IF v \in {Str(x) : x \in CustomerFormStatus} THEN Pass(v)
  ELSE IF v.t # "string" THEN InvalidType("'PENDING' | 'APPROVED' | 'REJECTED'", v)
  ELSE InvalidEnum("'PENDING' | 'APPROVED' | 'REJECTED'", v)
zSortBy(v) ==
  IF v \in {Str("createdAt"), Str("updatedAt")} THEN Pass(v)
  ELSE IF v.t # "string" THEN InvalidType("'createdAt' | 'updatedAt'", v)
  ELSE InvalidEnum("'createdAt' | 'updatedAt'", v)
\* one of the five nested z.object sections of the create body: the object
\* named "section" stands for a value that satisfies the section's schema
zSection(v) ==
  IF v = Obj("section") THEN Pass(v)
  ELSE IF v.t # "object" THEN InvalidType("object", v)
  ELSE Fail(<<"Required">>)

\* .optional() and .default(d)
Optional(v, parsed) == IF v = Undef THEN Pass(Undef) ELSE parsed
WithDefault(v, d, parsed) == IF v = Undef THEN Pass(d) ELSE parsed

ParseField(kind, v) ==
  CASE kind = "none" -> Pass(Undef)
    [] kind = "objectIdParam" -> objectIdParam(v)
    [] kind = "positiveIntegerParam" -> positiveIntegerParam(v)
    [] kind = "positiveIntegerParam.optional" -> Optional(v, positiveIntegerParam(v))
    [] kind = "booleanParam" -> booleanParam(v)
    [] kind = "status" -> zStatus(v)
    [] kind = "status.optional" -> Optional(v, zStatus(v))
    [] kind = "boolean.optional" -> Optional(v, zBoolean(v))
    [] kind = "boolean.default(true)" -> WithDefault(v, Bool(TRUE), zBoolean(v))
    [] kind = "string.optional" -> Optional(v, zString(v))
    [] kind = "sortBy" -> WithDefault(v, Str("createdAt"), zSortBy(v))
    [] kind = "sortOrderSchema" -> sortOrderSchema(v)
    [] kind = "section" -> zSection(v)

Shape(o) == [f \in Fields |-> IF f \in DOMAIN o THEN o[f] ELSE "none"]

\* the keys of an object whose value violates the schema, in key order
FailingFields(shape, value) ==
  SelectSeq(FieldOrder, LAMBDA f : ~ParseField(shape[f], value[f]).ok)

\* the issues of the keys fs from the i-th on, joined by "; ", each followed
\* by its path (the message zod-validation-error builds after its prefix)
RECURSIVE Issues(_, _, _, _)
Issues(shape, value, fs, i) ==
  IF i > Len(fs) THEN <<>>
  ELSE ParseField(shape[fs[i]], value[fs[i]]).issue \o <<" at ", fs[i]>>
       \o (IF i < Len(fs) THEN <<"; ">> ELSE <<>>)
       \o Issues(shape, value, fs, i + 1)

\* schema.parse(value): the parsed object, or the ZodError as the message
\* fromZodError(error).message gives it
parse(shape, value) ==
  IF \A f \in Fields : ParseField(shape[f], value[f]).ok
    THEN [ok |-> TRUE, out |-> [f \in Fields |-> ParseField(shape[f], value[f]).out],
          message |-> <<>>]
    ELSE [ok |-> FALSE, out |-> EmptyObject,
          message |-> <<"Validation error", ":", " ">>
                      \o Issues(shape, value, FailingFields(shape, value), 1)]

\* a sub-schema of a RequestValidationSchema: absent, or a z.object
NoSubSchema == [present |-> FALSE, shape |-> Shape(<<>>)]
ZObject(o) == [present |-> TRUE, shape |-> Shape(o)]
RequestValidationSchema(params, query, body) ==
  [defined |-> TRUE, params |-> params, query |-> query, body |-> body]
\* a route composed with no schema at all (schema is undefined)
UndefinedSchema ==
  [defined |-> FALSE, params |-> NoSubSchema, query |-> NoSubSchema, body |-> NoSubSchema]

createCustomerFormSchema ==
  RequestValidationSchema(NoSubSchema, NoSubSchema,
    ZObject([basicInformation |-> "section", businessDetails |-> "section",
             servicesNeeded |-> "section", clientScreening |-> "section",
             additionalDetails |-> "section", isEligible |-> "boolean.default(true)"]))

\* the list schema with isEligible declared as booleanParam
getCustomerFormsSchemaCoercing ==
  RequestValidationSchema(NoSubSchema,
    ZObject([page |-> "positiveIntegerParam.optional",
             limit |-> "positiveIntegerParam.optional",
             status |-> "status.optional", isEligible |-> "booleanParam",
             sortBy |-> "sortBy", sortOrder |-> "sortOrderSchema"]),
    NoSubSchema)

getCustomerFormsSchema ==
  RequestValidationSchema(NoSubSchema,
    ZObject([page |-> "positiveIntegerParam.optional",
             limit |-> "positiveIntegerParam.optional",
             status |-> "status.optional", isEligible |-> "boolean.optional",
             sortBy |-> "sortBy", sortOrder |-> "sortOrderSchema"]),
    NoSubSchema)

getSingleCustomerFormSchema ==
  RequestValidationSchema(ZObject([id |-> "objectIdParam"]), NoSubSchema, NoSubSchema)

updateCustomerFormSchema ==
  RequestValidationSchema(ZObject([id |-> "objectIdParam"]), NoSubSchema,
    ZObject([status |-> "status", notes |-> "string.optional",
             isEligible |-> "boolean.optional"]))

deleteCustomerFormSchema ==
  RequestValidationSchema(ZObject([id |-> "objectIdParam"]), NoSubSchema, NoSubSchema)

(***************************************************************************)
(* validateRequestSchema (request-validation.middleware.ts).               *)
(***************************************************************************)
\* validationErrorMessage.split(":"): the pieces between the colons
RECURSIVE split(_)
split(pieces) ==
  IF \A i \in 1..Len(pieces) : pieces[i] # ":" THEN <<pieces>>
  ELSE LET k == CHOOSE i \in 1..Len(pieces) :
                  pieces[i] = ":" /\ \A j \in 1..(i - 1) : pieces[j] # ":"
       IN <<SubSeq(pieces, 1, k - 1)>> \o split(SubSeq(pieces, k + 1, Len(pieces)))

\* the message built with everything after the first colon
formatErrorMessageKeepingRest(validationErrorMessage, location) ==
  LET indicator == split(validationErrorMessage)[1]
      errors == SubSeq(validationErrorMessage, Len(indicator) + 2,
                       Len(validationErrorMessage))
  IN Text(indicator \o <<" in [", location, "]", ":", " ">> \o errors)

formatErrorMessage(validationErrorMessage, location) ==
  LET parts == split(validationErrorMessage)
      indicator == parts[1]
      errors == IF Len(parts) >= 2 THEN parts[2] ELSE <<"undefined">>
  IN Text(indicator \o <<" in [", location, "]", ":", " ">> \o errors)

Facets == <<"params", "query", "body">>
Label(facet) ==
  CASE facet = "params" -> "Params" [] facet = "query" -> "Query" [] facet = "body" -> "Body"

\* one "try { if (sub) req.facet = sub.parse(req.facet) } catch ..." block, run
\* on the state st of the middleware call unless an earlier block has thrown
\* the block dropping the value parse returns instead of assigning it
ParsedNotAssigned(st, facet, r) ==
  IF r.ok
    THEN [st EXCEPT !.parsed = Append(@, facet)]
    ELSE [st EXCEPT !.parsed = Append(@, facet),
                    !.thrown = formatErrorMessage(r.message, Label(facet))]

ParsedOrThrown(st, facet, r) ==
  IF r.ok
    THEN [st EXCEPT !.req[facet] = r.out, !.parsed = Append(@, facet)]
    ELSE [st EXCEPT !.parsed = Append(@, facet),
                    !.thrown = formatErrorMessage(r.message, Label(facet))]

\* the block recording its message instead of throwing it, so that the later
\* blocks still run
ValidateFacetKeepsGoing(schema, st, facet) ==
  IF ~schema[facet].present THEN st
  ELSE ParsedOrThrown(st, facet, parse(schema[facet].shape, st.req[facet]))

ValidateFacet(schema, st, facet) ==
  IF st.thrown # Undef \/ ~schema[facet].present THEN st
  ELSE ParsedOrThrown(st, facet, parse(schema[facet].shape, st.req[facet]))

\* the three blocks in the order of the code, from the i-th on
RECURSIVE ValidateFacets(_, _, _)
ValidateFacets(schema, st, i) ==
  IF i > Len(Facets) THEN st
  ELSE ValidateFacets(schema, ValidateFacet(schema, st, Facets[i]), i + 1)

\* the catch clause responding without returning, next() being called after it
SettleThenNext(st) ==
  [req |-> st.req, parsed |-> st.parsed, next |-> TRUE,
   sent |-> IF st.thrown = Undef THEN <<>>
            ELSE <<error(Num(ClientErrorUnprocessableEntity), st.thrown, Undef)>>]

\* after the blocks: next() when nothing was thrown, else the catch clause
Settle(st) ==
  [req |-> st.req, parsed |-> st.parsed, next |-> st.thrown = Undef,
   sent |-> IF st.thrown = Undef THEN <<>>
            ELSE IF st.thrown.t = "string"
              THEN <<error(Num(ClientErrorUnprocessableEntity), st.thrown, Undef)>>
              ELSE <<error(Num(ServerErrorInternal), Str("Something went wrong"),
                           st.thrown)>>]

\* the middleware without its "if (!schema)" guard: destructuring undefined
\* raises a TypeError inside the try block
validateRequestSchemaUnguarded(schema, req) ==
  IF ~schema.defined
    THEN Settle([req |-> req, parsed |-> <<>>, thrown |-> Obj("TypeError")])
    ELSE Settle(ValidateFacets(schema, [req |-> req, parsed |-> <<>>, thrown |-> Undef], 1))

\* the middleware parsing into a copy and writing the facets back only when
\* all of them passed
validateRequestSchemaOnCopy(schema, req) ==
  IF ~schema.defined
    THEN [req |-> req, parsed |-> <<>>, next |-> FALSE,
          sent |-> <<error(Num(ServerErrorInternal),
                           Str("No request schema found for this route"), Undef)>>]
    ELSE LET v == Settle(ValidateFacets(schema,
                                        [req |-> req, parsed |-> <<>>, thrown |-> Undef], 1))
         IN IF v.next THEN v ELSE [v EXCEPT !.req = req]

\* the middleware validateRequestSchema(schema) returns, called on req: the
\* request as it leaves it, the sub-schemas it parsed in order, the response
\* it sent, if any, and whether it called next()
validateRequestSchema(schema, req) ==
  IF ~schema.defined
    THEN [req |-> req, parsed |-> <<>>, next |-> FALSE,
          sent |-> <<error(Num(ServerErrorInternal),
                           Str("No request schema found for this route"), Undef)>>]
    ELSE Settle(ValidateFacets(schema, [req |-> req, parsed |-> <<>>, thrown |-> Undef], 1))

(***************************************************************************)
(* The persistence collaborator (Prisma's db.customerForm) and the         *)
(* customer-form services (customer-forms/router.ts, lines 22-189).  A     *)
(* call to the collaborator settles with a DbResult: a record, null, a     *)
(* PrismaClientKnownRequestError with its code, or any other fault.        *)
(***************************************************************************)
NoForm == [exists |-> FALSE, status |-> "", notes |-> Undef, isEligible |-> FALSE]
Form(status, notes, isEligible) ==
  [exists |-> TRUE, status |-> status, notes |-> notes, isEligible |-> isEligible]

\* the record of id as the value the collaborator returns
Record(id) == [t |-> "object", s |-> <<"CustomerForm", id>>, n |-> 0]
Page == [t |-> "object", s |-> <<"forms", "pagination">>, n |-> 0]

DbValue(v) == [kind |-> "value", value |-> v, code |-> ""]
DbKnownError(code) ==
  [kind |-> "known", value |-> Obj("PrismaClientKnownRequestError"), code |-> code]
DbFault == [kind |-> "fault", value |-> Obj("Error"), code |-> ""]

createForm(formData, result) ==
  IF result.kind = "value"
    THEN serviceResponse_success(result.value, Str("Customer form created successfully"),
                                 Num(SuccessCreated))
  ELSE IF result.kind = "known"
    THEN serviceResponse_failure(Str("Failed to create customer form"),
                                 Num(ClientErrorBadRequest), Undef)
  ELSE serviceResponse_exception(
         Str("An unexpected error occurred while creating customer form"),
         Num(ServerErrorInternal), result.value, Undef)

\* the filter getForms passes to findMany and count: status when it is
\* truthy, isEligible when it is a boolean
where(params) ==
  [status |-> IF Truthy(params.status) THEN params.status ELSE Undef,
   isEligible |-> IF params.isEligible.t = "boolean" THEN params.isEligible ELSE Undef]

getForms(params, result) ==
  IF result.kind = "value"
    THEN serviceResponse_success(result.value, Undef, Undef)
    ELSE serviceResponse_exception(Str("Failed to fetch customer forms"),
                                   Num(ServerErrorInternal), result.value, Undef)

NotFoundMessage(id) == Text(<<"Customer form with id ">> \o id.s \o <<" not found">>)

getFormById(id, result) ==
  IF result.kind = "value"
    THEN IF ~Truthy(result.value)
           THEN serviceResponse_failure(NotFoundMessage(id), Num(ClientErrorNotFound), Undef)
           ELSE serviceResponse_success(result.value, Undef, Undef)
    ELSE serviceResponse_exception(Str("Failed to fetch customer form"),
                                   Num(ServerErrorInternal), result.value, Undef)

\* updateFormStatus classifying a known request error as unprocessable (422)
updateFormStatusUnprocessable(id, status, notes, result) ==
  IF result.kind = "value"
    THEN serviceResponse_success(result.value, Str("Customer form updated successfully"),
                                 Undef)
  ELSE IF result.kind = "known"
    THEN serviceResponse_failure(Str("Failed to update customer form"),
                                 Num(ClientErrorUnprocessableEntity), Undef)
  ELSE serviceResponse_exception(
         Str("An unexpected error occurred while updating customer form"),
         Num(ServerErrorInternal), result.value, Undef)

updateFormStatus(id, status, notes, result) ==
  IF result.kind = "value"
    THEN serviceResponse_success(result.value, Str("Customer form updated successfully"),
                                 Undef)
  ELSE IF result.kind = "known"
    THEN IF result.code = "P2025"
           THEN serviceResponse_failure(NotFoundMessage(id), Num(ClientErrorNotFound), Undef)
           ELSE serviceResponse_failure(Str("Failed to update customer form"), Undef, Undef)
  ELSE serviceResponse_exception(
         Str("An unexpected error occurred while updating customer form"),
         Num(ServerErrorInternal), result.value, Undef)

\* deleteForm without the branch for a record that does not exist
deleteFormWithoutNotFound(id, result) ==
  IF result.kind = "value"
    THEN serviceResponse_success(result.value, Str("Customer form deleted successfully"),
                                 Undef)
  ELSE IF result.kind = "known"
    THEN serviceResponse_failure(Str("Failed to delete customer form"), Undef, Undef)
  ELSE serviceResponse_exception(
         Str("An unexpected error occurred while deleting customer form"),
         Num(ServerErrorInternal), result.value, Undef)

deleteForm(id, result) ==
  IF result.kind = "value"
    THEN serviceResponse_success(result.value, Str("Customer form deleted successfully"),
                                 Undef)
  ELSE IF result.kind = "known"
    THEN IF result.code = "P2025"
           THEN serviceResponse_failure(NotFoundMessage(id), Num(ClientErrorNotFound), Undef)
           ELSE serviceResponse_failure(Str("Failed to delete customer form"), Undef, Undef)
  ELSE serviceResponse_exception(
         Str("An unexpected error occurred while deleting customer form"),
         Num(ServerErrorInternal), result.value, Undef)

(***************************************************************************)
(* The five customer-form controllers: what each sends once its service    *)
(* has returned the classification resp.                                   *)
(***************************************************************************)
\* a ServiceResponse instance passed where a payload is expected
Instance(resp) ==
  [t |-> "object", s |-> <<resp.cls>> \o resp.message.s \o resp.data.s,
   n |-> resp.statusCode.n]

\* the controller passing the attached cause on as the data of the error
createCustomerFormEchoesCause(resp) ==
  IF isUnsuccessful(resp) THEN error(resp.statusCode, resp.message, resp.error)
  ELSE success(Num(SuccessCreated), Str("Form submitted successfully"), resp.data)

createCustomerForm(resp) ==
  IF isUnsuccessful(resp) THEN error(resp.statusCode, resp.message, Undef)
  ELSE success(Num(SuccessCreated), Str("Form submitted successfully"), resp.data)

getCustomerForms(resp) ==
  IF isUnsuccessful(resp) THEN error(resp.statusCode, resp.message, Undef)
  ELSE success(Str("Customer forms fetched successfully"), resp.data, Undef)

getCustomerFormById(resp) ==
  IF isUnsuccessful(resp) THEN error(resp.statusCode, resp.message, Undef)
  ELSE success(Str("Customer form fetched successfully"), resp.data, Undef)

updateCustomerForm(resp) ==
  IF isUnsuccessful(resp) THEN error(resp.statusCode, resp.message, Undef)
  ELSE success(Str("Customer form updated successfully"), resp.data, Undef)

deleteCustomerForm(resp) ==
  IF isUnsuccessful(resp) THEN error(resp.statusCode, resp.message, Undef)
  ELSE success(Str("Customer form deleted successfully"), Instance(resp), Undef)

(***************************************************************************)
(* createRouteHandler (create-route-handler.ts): the stack                 *)
(* [schemaValidation, handler, catchAll] of a route.                       *)
(***************************************************************************)
\* the value { error: err }
ErrorObject(err) == [t |-> "object", s |-> <<"error", err.t>> \o err.s, n |-> err.n]

\* catchAll(err, req, res, next): what it logs and what it sends
catchAll(err) ==
  [logged |-> err,
   sent |-> error(Num(ServerErrorInternal), Str("Something went wrong"), ErrorObject(err))]

\* the major version of express the package depends on ("^4.21.2").  Express
\* 4 calls a handler and drops the promise it returns; from express 5 on a
\* rejected promise is passed to next(err)
ExpressMajor == 4
ForwardsRejections == ExpressMajor >= 5

(***************************************************************************)
(* The routes of the model: the five customer-form routes, a route         *)
(* composed from a schema that coerces all three facets and a controller   *)
(* of any behaviour, and a route composed with no schema.                  *)
(***************************************************************************)
CustomerRoutes ==
  {"createCustomerForm", "getCustomerForms", "getCustomerFormById",
   "updateCustomerForm", "deleteCustomerForm"}
Routes == CustomerRoutes \cup {"sampleRoute", "unconfiguredRoute"}

sampleSchema ==
  RequestValidationSchema(
    ZObject([id |-> "positiveIntegerParam"]),
    ZObject([page |-> "positiveIntegerParam.optional", sortOrder |-> "sortOrderSchema"]),
    ZObject([status |-> "status", isEligible |-> "boolean.default(true)"]))

SchemaOf(rt) ==
  CASE rt = "createCustomerForm" -> createCustomerFormSchema
    [] rt = "getCustomerForms" -> getCustomerFormsSchema
    [] rt = "getCustomerFormById" -> getSingleCustomerFormSchema
    [] rt = "updateCustomerForm" -> updateCustomerFormSchema
    [] rt = "deleteCustomerForm" -> deleteCustomerFormSchema
    [] rt = "sampleRoute" -> sampleSchema
    [] rt = "unconfiguredRoute" -> UndefinedSchema

\* the requests of the model, as express hands them to the route: params and
\* query hold strings, the body holds what express.json() parsed
Request(params, query, body) ==
  [params |-> ObjectOf(params), query |-> ObjectOf(query), body |-> ObjectOf(body)]
NoKeys == <<>>

ValidCreateBody ==
  [basicInformation |-> Obj("section"), businessDetails |-> Obj("section"),
   servicesNeeded |-> Obj("section"), clientScreening |-> Obj("section"),
   additionalDetails |-> Obj("section")]

Samples(rt) ==
  CASE rt = "createCustomerForm" ->
         {Request(NoKeys, NoKeys, ValidCreateBody),
          Request(NoKeys, NoKeys, [ValidCreateBody EXCEPT !.servicesNeeded = Undef])}
    [] rt = "getCustomerForms" ->
         {Request(NoKeys, NoKeys, NoKeys),
          Request(NoKeys, [page |-> Str("2"), status |-> Str("APPROVED")], NoKeys),
          Request(NoKeys, [isEligible |-> Str("true")], NoKeys),
          Request(NoKeys, [isEligible |-> Str("false"), status |-> Str("PENDING")], NoKeys),
          Request(NoKeys, [sortOrder |-> Text(<<"a", ":", "b">>)], NoKeys)}
    [] rt \in {"getCustomerFormById", "deleteCustomerForm"} ->
         {Request([id |-> Str(i)], NoKeys, NoKeys) : i \in {"oidA", "oidB", "zzz"}}
    [] rt = "updateCustomerForm" ->
         {Request([id |-> Str("oidA")], NoKeys,
                  [status |-> Str("APPROVED"), notes |-> Str("n"),
                   isEligible |-> Bool(FALSE)]),
          Request([id |-> Str("oidB")], NoKeys, [status |-> Str("REJECTED")]),
          Request([id |-> Str("oidA")], NoKeys, [status |-> Str("DONE")]),
          Request([id |-> Str("zzz")], NoKeys, [notes |-> Num(1)])}
    [] rt = "sampleRoute" ->
         {Request([id |-> Str(i)], [page |-> Str(pg)], [status |-> st]) :
            i \in {"1", "0"}, pg \in {"2", "x"}, st \in {Str("PENDING"), Undef}}
    [] rt = "unconfiguredRoute" ->
         {Request([id |-> Str("1")], [page |-> Str("2")], [status |-> Str("PENDING")])}

\* the values a controller of the sample route raises
Faults == {Obj("Error"), Str("boom")}

(***************************************************************************)
(* State.                                                                  *)
(***************************************************************************)
Reqs == 1..NumReqs

VARIABLES
  schemas,   \* per route: the schema its validation middleware closes over
  pc,        \* per request: "idle", "awaiting" (the controller is suspended), "done"
  route,     \* the route the request went to
  raw,       \* the facets of the request as received
  req,       \* the facets of the request object now
  seen,      \* the facets the controller read when it was invoked
  parsed,    \* the facets whose sub-schema was parsed, in order
  sends,     \* the responses sent for the request through res.success / res.error
  calls,     \* how often next(), the controller and catchAll were called
  logged,    \* the values passed to consola.error for the request
  svc,       \* the ServiceResponse the service returned to the controller
  rejected,  \* the fault the handler's promise was rejected with
  db,        \* the stored customer forms, by id
  alive,     \* the process is running
  out        \* the last call applied to a response helper or constructor

pipeline ==
  <<schemas, pc, route, raw, req, seen, parsed, sends, calls, logged, svc, rejected, db, alive>>

vars ==
  <<schemas, pc, route, raw, req, seen, parsed, sends, calls, logged, svc, rejected, db, alive, out>>

NoRequest == Request(NoKeys, NoKeys, NoKeys)
NoResponse == ServiceResponse("", FALSE, Undef, Undef, Undef)
NoCall == [op |-> "", args |-> <<>>]

Init ==
  /\ schemas = [rt \in Routes |-> SchemaOf(rt)]
  /\ pc = [r \in Reqs |-> "idle"]
  /\ route = [r \in Reqs |-> ""]
  /\ raw = [r \in Reqs |-> NoRequest]
  /\ req = [r \in Reqs |-> NoRequest]
  /\ seen = [r \in Reqs |-> NoRequest]
  /\ parsed = [r \in Reqs |-> <<>>]
  /\ sends = [r \in Reqs |-> <<>>]
  /\ calls = [r \in Reqs |-> [next |-> 0, controller |-> 0, catchAll |-> 0]]
  /\ logged = [r \in Reqs |-> <<>>]
  /\ svc = [r \in Reqs |-> NoResponse]
  /\ rejected = [r \in Reqs |-> Undef]
  /\ db = [i \in ObjectIds |-> IF i = "oidA" THEN Form("PENDING", Undef, TRUE) ELSE NoForm]
  /\ alive = TRUE
  /\ out = NoCall

(***************************************************************************)
(* A request arrives and express runs the route's stack on it: the         *)
(* validation middleware, then, if that called next(), the handler, which  *)
(* invokes the controller.  The controller reads the request and runs up   *)
(* to its first await.  Requests are numbered in the order they arrive.    *)
(***************************************************************************)
Receive(r) ==
  /\ alive
  /\ pc[r] = "idle"
  /\ \A q \in Reqs : q < r => pc[q] # "idle"
  /\ \E rt \in Routes : \E rq \in Samples(rt) :
       LET v == validateRequestSchema(schemas[rt], rq)
       IN /\ route' = [route EXCEPT ![r] = rt]
          /\ raw' = [raw EXCEPT ![r] = rq]
          /\ req' = [req EXCEPT ![r] = v.req]
          /\ parsed' = [parsed EXCEPT ![r] = v.parsed]
          /\ sends' = [sends EXCEPT ![r] = v.sent]
          /\ IF v.next
               THEN /\ calls' = [calls EXCEPT ![r].next = 1, ![r].controller = 1]
                    /\ seen' = [seen EXCEPT ![r] = v.req]
                    /\ pc' = [pc EXCEPT ![r] = "awaiting"]
               ELSE /\ calls' = calls
                    /\ seen' = seen
                    /\ pc' = [pc EXCEPT ![r] = "done"]
  /\ UNCHANGED <<schemas, logged, svc, rejected, db, alive, out>>

\* the service's return value kept in one slot that every request reads
RespondThroughSharedSlot(r, resp, sent) ==
  /\ svc' = [q \in Reqs |-> resp]
  /\ sends' = [sends EXCEPT ![r] = Append(@, sent)]
  /\ pc' = [pc EXCEPT ![r] = "done"]
  /\ UNCHANGED <<schemas, route, raw, req, seen, parsed, calls, logged, rejected, alive, out>>

\* the service of request r has returned resp and its controller sends sent
Respond(r, resp, sent) ==
  /\ svc' = [svc EXCEPT ![r] = resp]
  /\ sends' = [sends EXCEPT ![r] = Append(@, sent)]
  /\ pc' = [pc EXCEPT ![r] = "done"]
  /\ UNCHANGED <<schemas, route, raw, req, seen, parsed, calls, logged, rejected, alive, out>>

Awaiting(r, rt) == alive /\ pc[r] = "awaiting" /\ route[r] = rt

\* db.customerForm.create settles
CreateSettles(r) ==
  /\ Awaiting(r, "createCustomerForm")
  /\ \E result \in {DbValue(Record(i)) : i \in {j \in ObjectIds : ~db[j].exists}}
                     \cup {DbKnownError("P2002"), DbFault} :
       LET formData == seen[r].body
           resp == createForm(formData, result)
       IN /\ db' = IF result.kind = "value"
                     THEN [db EXCEPT ![result.value.s[2]] =
                             Form("PENDING", Undef, formData.isEligible = Bool(TRUE))]
                     ELSE db
          /\ Respond(r, resp, createCustomerForm(resp))

\* db.customerForm.findMany and count settle
FindManySettles(r) ==
  /\ Awaiting(r, "getCustomerForms")
  /\ \E result \in {DbValue(Page), DbFault} :
       LET resp == getForms(seen[r].query, result)
       IN /\ db' = db
          /\ Respond(r, resp, getCustomerForms(resp))

\* db.customerForm.findUnique settles
FindUniqueSettles(r) ==
  /\ Awaiting(r, "getCustomerFormById")
  /\ LET id == seen[r].params.id
     IN \E result \in {DbValue(IF db[id.s[1]].exists THEN Record(id.s[1]) ELSE Null),
                        DbFault} :
          LET resp == getFormById(id, result)
          IN /\ db' = db
             /\ Respond(r, resp, getCustomerFormById(resp))

\* the update writing the body's isEligible too
UpdateSettlesWithEligibility(r) ==
  /\ Awaiting(r, "updateCustomerForm")
  /\ LET id == seen[r].params.id
         newStatus == seen[r].body.status
         optionalNote == seen[r].body.notes
         eligible == seen[r].body.isEligible
     IN \E result \in {IF db[id.s[1]].exists THEN DbValue(Record(id.s[1]))
                                              ELSE DbKnownError("P2025"),
                        DbKnownError("P2002"), DbFault} :
          LET resp == updateFormStatus(id, newStatus, optionalNote, result)
          IN /\ db' = IF result.kind = "value"
                        THEN [db EXCEPT ![id.s[1]].status = newStatus.s[1],
                                        ![id.s[1]].notes =
                                          IF optionalNote = Undef THEN @ ELSE optionalNote,
                                        ![id.s[1]].isEligible =
                                          IF eligible = Undef THEN @ ELSE eligible = Bool(TRUE)]
                        ELSE db
             /\ Respond(r, resp, updateCustomerForm(resp))

\* db.customerForm.update settles
UpdateSettles(r) ==
  /\ Awaiting(r, "updateCustomerForm")
  /\ LET id == seen[r].params.id
         newStatus == seen[r].body.status
         optionalNote == seen[r].body.notes
     IN \E result \in {IF db[id.s[1]].exists THEN DbValue(Record(id.s[1]))
                                              ELSE DbKnownError("P2025"),
                        DbKnownError("P2002"), DbFault} :
          LET resp == updateFormStatus(id, newStatus, optionalNote, result)
          IN /\ db' = IF result.kind = "value"
                        THEN [db EXCEPT ![id.s[1]].status = newStatus.s[1],
                                        ![id.s[1]].notes =
                                          IF optionalNote = Undef THEN @ ELSE optionalNote]
                        ELSE db
             /\ Respond(r, resp, updateCustomerForm(resp))

\* db.customerForm.delete settles
DeleteSettles(r) ==
  /\ Awaiting(r, "deleteCustomerForm")
  /\ LET id == seen[r].params.id
     IN \E result \in {IF db[id.s[1]].exists THEN DbValue(Record(id.s[1]))
                                              ELSE DbKnownError("P2025"),
                        DbKnownError("P2014"), DbFault} :
          LET resp == deleteForm(id, result)
          IN /\ db' = IF result.kind = "value" THEN [db EXCEPT ![id.s[1]] = NoForm] ELSE db
             /\ Respond(r, resp, deleteCustomerForm(resp))

(***************************************************************************)
(* The controller of the sample route: createRouteHandler takes any        *)
(* controller, so it may respond and return, return without responding,    *)
(* or raise a fault before or after responding.                            *)
(***************************************************************************)
ControllerSends ==
  {success(Num(SuccessOK), Str("done"), Obj("payload")),
   error(Num(ClientErrorBadRequest), Str("rejected"), Undef)}

ControllerResponds(r) ==
  /\ Awaiting(r, "sampleRoute")
  /\ \E sent \in ControllerSends : sends' = [sends EXCEPT ![r] = Append(@, sent)]
  /\ pc' = [pc EXCEPT ![r] = "done"]
  /\ UNCHANGED <<schemas, route, raw, req, seen, parsed, calls, logged, svc, rejected, db, alive, out>>

ControllerReturns(r) ==
  /\ Awaiting(r, "sampleRoute")
  /\ pc' = [pc EXCEPT ![r] = "done"]
  /\ UNCHANGED <<schemas, route, raw, req, seen, parsed, sends, calls, logged, svc, rejected, db,
                 alive, out>>

\* The controller raises err, after responding or before: "await controller"
\* rejects the promise of the async handler.  Express hands a rejection to
\* the route's error handler from version 5 on; before that nothing handles
\* it, and node ends the process on an unhandled rejection unless it was
\* started with --unhandled-rejections=warn or none.
ControllerThrows(r) ==
  /\ Awaiting(r, "sampleRoute")
  /\ \E err \in Faults : \E responded \in BOOLEAN : \E exits \in BOOLEAN :
       LET own == IF responded
                    THEN <<success(Num(SuccessOK), Str("done"), Obj("payload"))>>
                    ELSE <<>>
       IN /\ rejected' = [rejected EXCEPT ![r] = err]
          /\ IF ForwardsRejections
               THEN /\ sends' = [sends EXCEPT ![r] = @ \o own \o <<catchAll(err).sent>>]
                    /\ logged' = [logged EXCEPT ![r] = Append(@, catchAll(err).logged)]
                    /\ calls' = [calls EXCEPT ![r].catchAll = @ + 1]
                    /\ alive' = alive
               ELSE /\ sends' = [sends EXCEPT ![r] = @ \o own]
                    /\ logged' = logged
                    /\ calls' = calls
                    /\ alive' = ~exits
  /\ pc' = [pc EXCEPT ![r] = "done"]
  /\ UNCHANGED <<schemas, route, raw, req, seen, parsed, svc, db, out>>

Next ==
  \E r \in Reqs :
    \/ Receive(r)
    \/ CreateSettles(r)
    \/ FindManySettles(r)
    \/ FindUniqueSettles(r)
    \/ UpdateSettles(r)
    \/ DeleteSettles(r)
    \/ ControllerResponds(r)
    \/ ControllerReturns(r)
    \/ ControllerThrows(r)

Spec == Init /\ [][Next]_vars

(***************************************************************************)
(* The response helpers and the ServiceResponse constructors applied to    *)
(* arguments of every kind: out holds the call and its result.             *)
(***************************************************************************)
Payloads ==
  {Undef, Null, Num(0), Num(7), Bool(FALSE), Bool(TRUE), Str(""), Str("x"),
   Obj("payload")}
Messages == {Str("message"), Str("other")}
Codes == {Num(SuccessOK), Num(SuccessCreated), Num(ClientErrorNotFound),
          Num(ServerErrorInternal)}

Call(op, args, result) == [op |-> op, args |-> args, result |-> result]

CallSuccess ==
  /\ \/ \E c \in Codes, m \in Messages, d \in Payloads :
          out' = Call("res.success", <<c, m, d>>, success(c, m, d))
     \/ \E m \in Messages, d \in Payloads :
          out' = Call("res.success", <<m, d, Undef>>, success(m, d, Undef))
  /\ UNCHANGED pipeline

CallError ==
  /\ \E c \in Codes, m \in Messages, d \in Payloads :
       out' = Call("res.error", <<c, m, d>>, error(c, m, d))
  /\ UNCHANGED pipeline

BuildSuccess ==
  /\ \E d \in Payloads, m \in Messages \cup {Undef}, c \in Codes \cup {Undef} :
       out' = Call("serviceResponse.success", <<d, m, c>>,
                   serviceResponse_success(d, m, c))
  /\ UNCHANGED pipeline

BuildFailure ==
  /\ \E m \in Messages, c \in Codes \cup {Undef}, d \in Payloads :
       out' = Call("serviceResponse.failure", <<m, c, d>>,
                   serviceResponse_failure(m, c, d))
  /\ UNCHANGED pipeline

BuildException ==
  /\ \E m \in Messages, c \in Codes \cup {Undef}, e \in Payloads \cup Faults,
        d \in {Undef, Obj("payload")} :
       out' = Call("serviceResponse.exception", <<m, c, e, d>>,
                   serviceResponse_exception(m, c, e, d))
  /\ UNCHANGED pipeline

\* express passes a fault to the error-handling middleware of a route
CallCatchAll ==
  /\ \E err \in Faults : out' = Call("catchAll", <<err>>, catchAll(err))
  /\ UNCHANGED pipeline

\* what the persistence collaborator can settle a service's call with: a
\* value, a PrismaClientKnownRequestError with its code, or another fault
Outcomes(service) ==
  CASE service = "createForm" ->
         {DbValue(Record("oidB")), DbKnownError("P2002"), DbKnownError("P2025"), DbFault}
    [] service = "getForms" -> {DbValue(Page), DbKnownError("P2023"), DbFault}
    [] service = "getFormById" ->
         {DbValue(Record("oidA")), DbValue(Null), DbKnownError("P2023"), DbFault}
    [] service \in {"updateFormStatus", "deleteForm"} ->
         {DbValue(Record("oidA")), DbKnownError("P2025"), DbKnownError("P2002"), DbFault}

Services == {"createForm", "getForms", "getFormById", "updateFormStatus", "deleteForm"}

\* a customer-form service is called and its persistence call settles
CallService ==
  /\ \E service \in Services : \E result \in Outcomes(service) : \E id \in ObjectIds :
       out' = Call(service, <<result>>,
                   CASE service = "createForm" -> createForm(ValidCreateBody, result)
                     [] service = "getForms" -> getForms(NoKeys, result)
                     [] service = "getFormById" -> getFormById(Str(id), result)
                     [] service = "updateFormStatus" ->
                          updateFormStatus(Str(id), Str("APPROVED"), Undef, result)
                     [] service = "deleteForm" -> deleteForm(Str(id), result))
  /\ UNCHANGED pipeline

NextFn ==
  \/ CallSuccess
  \/ CallError
  \/ BuildSuccess
  \/ BuildFailure
  \/ BuildException
  \/ CallCatchAll
  \/ CallService

SpecFn == Init /\ [][NextFn]_vars

(***************************************************************************)
(* Properties.                                                             *)
(***************************************************************************)
Arrived(r) == pc[r] # "idle"
Done(r) == pc[r] = "done"
TheSchema(r) == SchemaOf(route[r])

\* facet f of request r, as received, violates the sub-schema the route has for it
Violates(r, f) == TheSchema(r)[f].present /\ ~parse(TheSchema(r)[f].shape, raw[r][f]).ok
Invalid(r) == \E i \in 1..3 : Violates(r, Facets[i])
\* the position in params, query, body of the first facet that violates its sub-schema
FirstFailing(r) ==
  CHOOSE i \in 1..3 : Violates(r, Facets[i]) /\ \A j \in 1..(i - 1) : ~Violates(r, Facets[j])
\* the string m has the piece x
Contains(m, x) == \E i \in 1..Len(m.s) : m.s[i] = x
\* the facets the route has a sub-schema for, in the order params, query, body
Constrained(r) == SelectSeq(Facets, LAMBDA f : TheSchema(r)[f].present)
\* the sequence s up to its element x
UpTo(s, x) == SubSeq(s, 1, CHOOSE i \in 1..Len(s) : s[i] = x)

\* C1 (as claimed): a request whose pipeline has finished has been sent
\* exactly one response, whatever its controller did.
C1_ExactlyOneResponse == \A r \in Reqs : Done(r) => Len(sends[r]) = 1

\* C2 (as claimed): when the controller's promise rejects, catchAll runs
\* once, logs the fault once, one 500 response is sent, and the process
\* stays up.
C2_FaultBarrierRunsOnce ==
  \A r \in Reqs :
    rejected[r] # Undef =>
      /\ calls[r].catchAll = 1
      /\ Len(logged[r]) = 1
      /\ Cardinality({i \in 1..Len(sends[r]) :
                        sends[r][i].status = Num(ServerErrorInternal)}) = 1
      /\ alive

\* C3: when some facet violates its sub-schema and F is the first such facet
\* in the order params, query, body, the one response of the request is a
\* 422 whose message has F's label, next() is not called, and neither the
\* controller nor catchAll is invoked.
C3_InvalidRequestGets422 ==
  \A r \in Reqs :
    Arrived(r) /\ TheSchema(r).defined /\ Invalid(r) =>
      /\ Done(r)
      /\ Len(sends[r]) = 1
      /\ sends[r][1].status = Num(ClientErrorUnprocessableEntity)
      /\ sends[r][1].body.success = FALSE
      /\ Contains(sends[r][1].body.message, Label(Facets[FirstFailing(r)]))
      /\ calls[r] = [next |-> 0, controller |-> 0, catchAll |-> 0]
      /\ svc[r] = NoResponse

\* a request rejected at its query facet has got its 422
C3_Witness ==
  \E r \in Reqs :
    /\ Done(r) /\ TheSchema(r).defined /\ Invalid(r)
    /\ Facets[FirstFailing(r)] = "query"
    /\ sends[r][1].status = Num(ClientErrorUnprocessableEntity)

\* C4: the sub-schemas are parsed in the order params, query, body; none is
\* parsed after the first that fails; and the message of the response has
\* the label of the first failing facet and of no other facet.
C4_FirstFailureOnly ==
  \A r \in Reqs :
    Arrived(r) /\ TheSchema(r).defined =>
      IF Invalid(r)
        THEN /\ parsed[r] = UpTo(Constrained(r), Facets[FirstFailing(r)])
             /\ \A i \in 1..3 :
                  Contains(sends[r][1].body.message, Label(Facets[i]))
                    <=> i = FirstFailing(r)
        ELSE parsed[r] = Constrained(r)

\* a request with an invalid params facet and a later invalid facet: only
\* params was parsed
C4_Witness ==
  \E r \in Reqs :
    /\ Done(r) /\ TheSchema(r).defined
    /\ Violates(r, "params") /\ Violates(r, "query") /\ Violates(r, "body")
    /\ parsed[r] = <<"params">>

\* C5: when no facet violates its sub-schema, the middleware sends nothing
\* and calls next() once; each facet with a sub-schema then holds the parsed
\* value, each facet without one the value received, and the controller is
\* invoked once and reads exactly these facets.
C5_ValidRequestReachesController ==
  \A r \in Reqs :
    Arrived(r) /\ TheSchema(r).defined /\ ~Invalid(r) =>
      /\ calls[r].next = 1
      /\ calls[r].controller = 1
      /\ pc[r] = "awaiting" => sends[r] = <<>>
      /\ \A i \in 1..3 :
           LET f == Facets[i]
           IN req[r][f] = IF TheSchema(r)[f].present
                            THEN parse(TheSchema(r)[f].shape, raw[r][f]).out
                            ELSE raw[r][f]
      /\ seen[r] = req[r]

\* a list request whose page "2" was coerced to the number 2, its params and
\* body left as received, is with its controller
C5_Witness ==
  \E r \in Reqs :
    /\ pc[r] = "awaiting" /\ route[r] = "getCustomerForms"
    /\ raw[r].query.page = Str("2") /\ seen[r].query.page = Num(2)
    /\ seen[r].query.sortOrder = Str("desc")
    /\ seen[r].params = raw[r].params /\ seen[r].body = raw[r].body

\* C6: a request to a route composed with no schema gets the one response
\* 500 "No request schema found for this route" without data; its facets
\* stay as received and its controller is not invoked.
C6_NoSchemaIs500 ==
  \A r \in Reqs :
    Arrived(r) /\ ~TheSchema(r).defined =>
      /\ Done(r)
      /\ sends[r] = <<[status |-> Num(ServerErrorInternal),
                       body |-> [success |-> FALSE,
                                 message |-> Str("No request schema found for this route"),
                                 hasData |-> FALSE, data |-> Undef]]>>
      /\ req[r] = raw[r]
      /\ calls[r] = [next |-> 0, controller |-> 0, catchAll |-> 0]

\* a request to the route without schema has been answered
C6_Witness ==
  \E r \in Reqs :
    Done(r) /\ route[r] = "unconfiguredRoute" /\ Len(sends[r]) = 1
      /\ raw[r].params.id = Str("1")

\* C7: when the service of a customer-form controller returns a Failure or
\* an Exception, the one response has the classification's statusCode,
\* success false, the classification's message and no data key.
C7_UnsuccessfulHasNoData ==
  \A r \in Reqs :
    Done(r) /\ route[r] \in CustomerRoutes /\ svc[r] # NoResponse
            /\ isUnsuccessful(svc[r]) =>
      sends[r] = <<[status |-> svc[r].statusCode,
                    body |-> [success |-> FALSE, message |-> svc[r].message,
                              hasData |-> FALSE, data |-> Undef]]>>

\* every customer-form controller has answered an Exception that carries its
\* cause, and some controller a Failure
C7_Witness ==
  /\ \E r \in Reqs : Done(r) /\ isFailure(svc[r])
  /\ \E r \in Reqs : Done(r) /\ isException(svc[r]) /\ svc[r].hasError
                       /\ route[r] = "createCustomerForm"

\* C8 (as claimed): when the service of a customer-form controller returns
\* a Success, the one response has the classification's statusCode, success
\* true, the classification's message, and its payload as data.
C8_SuccessEchoesClassification ==
  \A r \in Reqs :
    Done(r) /\ route[r] \in CustomerRoutes /\ isSuccess(svc[r]) =>
      sends[r] = <<[status |-> svc[r].statusCode,
                    body |-> [success |-> TRUE, message |-> svc[r].message,
                              hasData |-> TRUE, data |-> svc[r].data]]>>

\* the payload argument of a call of res.success or res.error
PayloadArg == IF out.args[1].t = "number" THEN out.args[3] ELSE out.args[2]

\* C9 (as claimed): the body res.success / res.error serializes has the
\* data key exactly when a payload was passed, also a falsy one, and then
\* data is that payload; success is true for res.success and false for
\* res.error; the status is the code passed, 200 when none was.
C9_DataKeyIffPayloadPassed ==
  out.op \in {"res.success", "res.error"} =>
    /\ out.result.body.hasData = (PayloadArg # Undef)
    /\ out.result.body.data = PayloadArg
    /\ out.result.body.success = (out.op = "res.success")
    /\ out.result.status = IF out.args[1].t = "number" THEN out.args[1] ELSE Num(SuccessOK)

\* C10: of a value built by serviceResponse.success, failure or exception,
\* exactly one of isSuccess, isFailure, isException holds, and
\* isUnsuccessful holds exactly when isFailure or isException does.
C10_OneVariant ==
  out.op \in {"serviceResponse.success", "serviceResponse.failure",
              "serviceResponse.exception"} =>
    /\ Cardinality({p \in {"s", "f", "e"} :
                      \/ p = "s" /\ isSuccess(out.result)
                      \/ p = "f" /\ isFailure(out.result)
                      \/ p = "e" /\ isException(out.result)}) = 1
    /\ isUnsuccessful(out.result) <=> (isFailure(out.result) \/ isException(out.result))

\* an Exception built with a status code and a cause is unsuccessful
C10_Witness ==
  /\ out.op = "serviceResponse.exception"
  /\ out.args[2] = Num(ClientErrorNotFound) /\ out.args[3] = Obj("Error")
  /\ isException(out.result) /\ isUnsuccessful(out.result)

\* C11: an omitted message or statusCode takes its default ("Operation
\* successful" and 200 for success, 400 for failure, 500 for exception, and
\* an exception built without a cause has none); a message or statusCode
\* that is passed is kept as passed.
C11_DefaultsAndExplicitArguments ==
  /\ out.op = "serviceResponse.success" =>
       /\ out.result.data = out.args[1]
       /\ out.result.message =
            IF out.args[2] = Undef THEN Str("Operation successful") ELSE out.args[2]
       /\ out.result.statusCode =
            IF out.args[3] = Undef THEN Num(SuccessOK) ELSE out.args[3]
  /\ out.op = "serviceResponse.failure" =>
       /\ out.result.message = out.args[1]
       /\ out.result.statusCode =
            IF out.args[2] = Undef THEN Num(ClientErrorBadRequest) ELSE out.args[2]
  /\ out.op = "serviceResponse.exception" =>
       /\ out.result.message = out.args[1]
       /\ out.result.statusCode =
            IF out.args[2] = Undef THEN Num(ServerErrorInternal) ELSE out.args[2]
       /\ out.args[3] = Undef => ~out.result.hasError /\ out.result.error = Undef

\* an Exception built from a message alone has status 500 and no cause
C11_Witness ==
  /\ out.op = "serviceResponse.exception"
  /\ out.args[2] = Undef /\ out.args[3] = Undef /\ out.args[4] = Undef
  /\ out.result.statusCode = Num(ServerErrorInternal) /\ ~out.result.hasError

\* C12 (as claimed): an Exception carries the cause passed to
\* serviceResponse.exception, whatever its value, also 0, false, "" or null;
\* it has no cause only when none was passed.
C12_CauseKeptWhenPassed ==
  out.op = "serviceResponse.exception" =>
    /\ out.result.hasError = (out.args[3] # Undef)
    /\ out.result.error = out.args[3]

\* C13: on the five customer-form routes a response has status 422 only
\* when a facet of the request violates its sub-schema, and then the
\* controller was not invoked; and a request with such a facet gets 422 and
\* no other status.
C13_Only422FromValidation ==
  \A r \in Reqs :
    Arrived(r) /\ route[r] \in CustomerRoutes =>
      /\ \A i \in 1..Len(sends[r]) :
           sends[r][i].status = Num(ClientErrorUnprocessableEntity)
             <=> Invalid(r) /\ calls[r].controller = 0
      /\ Invalid(r) => Len(sends[r]) = 1 /\ svc[r] = NoResponse

\* an update was rejected with 422 at its body, and an update that passed
\* validation was answered by its controller with 404
C13_Witness ==
  /\ \E r \in Reqs :
       /\ Done(r) /\ route[r] = "updateCustomerForm"
       /\ ~Violates(r, "params") /\ Violates(r, "body")
       /\ sends[r][1].status = Num(ClientErrorUnprocessableEntity)
  /\ \E r \in Reqs :
       /\ Done(r) /\ route[r] = "updateCustomerForm" /\ ~Invalid(r)
       /\ sends[r][1].status = Num(ClientErrorNotFound)


\* the response the controller of route rt sends for the service's resp
ControllerOf(rt, resp) ==
  CASE rt = "createCustomerForm" -> createCustomerForm(resp)
    [] rt = "getCustomerForms" -> getCustomerForms(resp)
    [] rt = "getCustomerFormById" -> getCustomerFormById(resp)
    [] rt = "updateCustomerForm" -> updateCustomerForm(resp)
    [] rt = "deleteCustomerForm" -> deleteCustomerForm(resp)
\* everything the pipeline holds for request r
Own(r) ==
  <<route[r], raw[r], req[r], seen[r], parsed[r], sends[r], calls[r], logged[r], svc[r],
    rejected[r]>>

\* C14: however in-flight requests interleave at their awaits, no step
\* modifies a route's schema; a step of one request changes nothing the
\* pipeline holds for another; every request's facets, parsed facets, call
\* of next() and 422 response are those validateRequestSchema gives for its
\* raw request alone; and the response of a customer-form controller is
\* built from the ServiceResponse its own service call returned.
C14_NoSharedMutableState ==
  [][/\ schemas' = schemas
     /\ \A r \in Reqs :
          pc'[r] # pc[r] => \A q \in Reqs \ {r} : Own(q)' = Own(q)
     /\ \A r \in Reqs :
          pc'[r] # "idle" =>
            LET v == validateRequestSchema(SchemaOf(route'[r]), raw'[r])
            IN /\ req'[r] = v.req
               /\ parsed'[r] = v.parsed
               /\ (calls'[r].next = 1) = v.next
               /\ ~v.next => sends'[r] = v.sent
     /\ \A r \in Reqs :
          pc'[r] = "done" /\ route'[r] \in CustomerRoutes /\ calls'[r].controller = 1 =>
            sends'[r] = <<ControllerOf(route'[r], svc'[r])>>]_vars

\* the second request arrived, had its facets rewritten and was answered
\* from its own ServiceResponse while the first was still awaiting
C14_Witness ==
  /\ NumReqs >= 2
  /\ pc[1] = "awaiting" /\ route[1] \in CustomerRoutes
  /\ Done(2) /\ route[2] \in CustomerRoutes /\ req[2] # raw[2]
  /\ svc[2] # NoResponse /\ svc[2] # svc[1]


\* C15 (as claimed): the response of catchAll is status 500 with the message
\* "Something went wrong", its body carries nothing of the fault, and it is
\* the same response for every fault.
C15_FaultNotInBody ==
  out.op = "catchAll" =>
    /\ out.result.logged = out.args[1]
    /\ out.result.sent.status = Num(ServerErrorInternal)
    /\ out.result.sent.body.message = Str("Something went wrong")
    /\ ~out.result.sent.body.hasData
    /\ \A err \in Faults : catchAll(err).sent = out.result.sent


\* the classification a service returned: its class, flag and status
Classified(resp, cls, statusCode) ==
  /\ resp.cls = cls
  /\ resp.success = (cls = "ServiceSuccess")
  /\ resp.statusCode = Num(statusCode)

\* C16: a customer-form service returns a classification for every outcome
\* of its persistence call: a record gives Success (201 for createForm, 200
\* otherwise); no record from findUnique, or code P2025 on update or
\* delete, gives Failure 404; any other known request error on create,
\* update or delete gives Failure 400; every other fault, and every fault
\* in getForms and getFormById, gives Exception 500 carrying the fault.
C16_EveryOutcomeClassified ==
  out.op \in Services =>
    LET result == out.args[1]
        resp == out.result
        mutating == out.op \in {"createForm", "updateFormStatus", "deleteForm"}
        missing ==
          \/ out.op = "getFormById" /\ result = DbValue(Null)
          \/ /\ out.op \in {"updateFormStatus", "deleteForm"}
             /\ result.kind = "known" /\ result.code = "P2025"
    IN /\ result.kind = "value" /\ ~missing =>
            /\ Classified(resp, "ServiceSuccess",
                          IF out.op = "createForm" THEN SuccessCreated ELSE SuccessOK)
            /\ resp.data = result.value
       /\ missing => Classified(resp, "ServiceFailure", ClientErrorNotFound)
       /\ result.kind = "known" /\ mutating /\ ~missing =>
            Classified(resp, "ServiceFailure", ClientErrorBadRequest)
       /\ result.kind = "fault" \/ (result.kind = "known" /\ ~mutating) =>
            /\ Classified(resp, "ServiceException", ServerErrorInternal)
            /\ resp.hasError /\ resp.error = result.value

\* deleteForm was called for a record that does not exist and returned a
\* Failure with status 404
C16_Witness ==
  /\ out.op = "deleteForm"
  /\ out.args[1] = DbKnownError("P2025")
  /\ isFailure(out.result) /\ out.result.statusCode = Num(ClientErrorNotFound)


\* C17: when validation fails at facet F, every facet before F in the order
\* params, query, body that has a sub-schema holds its parsed value, and F
\* and every later facet hold the values received.
C17_PartialRewriteOnFailure ==
  \A r \in Reqs :
    Arrived(r) /\ TheSchema(r).defined /\ Invalid(r) =>
      \A i \in 1..3 :
        LET f == Facets[i]
        IN req[r][f] = IF i < FirstFailing(r) /\ TheSchema(r)[f].present
                         THEN parse(TheSchema(r)[f].shape, raw[r][f]).out
                         ELSE raw[r][f]

\* a request rejected at its query facet: its id "1" has become the number
\* 1, its query and body are as received
C17_Witness ==
  \E r \in Reqs :
    /\ Done(r) /\ route[r] = "sampleRoute"
    /\ ~Violates(r, "params") /\ Violates(r, "query")
    /\ raw[r].params.id = Str("1") /\ req[r].params.id = Num(1)
    /\ req[r].query = raw[r].query /\ req[r].body = raw[r].body
    /\ sends[r][1].status = Num(ClientErrorUnprocessableEntity)


\* C18: the step that settles an update request, whatever isEligible its
\* validated body carries, leaves the isEligible of every stored form as it
\* was and changes no form but the one of its id; when the update
\* succeeded, that form has the body's status and, if the body has notes,
\* its notes.
C18_UpdateKeepsEligibility ==
  [][\A r \in Reqs :
       route[r] = "updateCustomerForm" /\ pc[r] = "awaiting" /\ pc'[r] = "done" =>
         LET id == seen[r].params.id.s[1]
         IN /\ \A i \in ObjectIds :
                 /\ db'[i].isEligible = db[i].isEligible
                 /\ db'[i].exists = db[i].exists
                 /\ i # id => db'[i] = db[i]
            /\ IF isSuccess(svc'[r])
                 THEN /\ db'[id].status = seen[r].body.status.s[1]
                      /\ db'[id].notes = IF seen[r].body.notes = Undef
                                           THEN db[id].notes
                                           ELSE seen[r].body.notes
                 ELSE db' = db]_vars

\* an update whose body had isEligible false succeeded: the form has the new
\* status and notes and is still eligible
C18_Witness ==
  \E r \in Reqs :
    /\ Done(r) /\ route[r] = "updateCustomerForm" /\ isSuccess(svc[r])
    /\ seen[r].body.isEligible = Bool(FALSE)
    /\ seen[r].params.id = Str("oidA")
    /\ db["oidA"].status = "APPROVED" /\ db["oidA"].notes = Str("n")
    /\ db["oidA"].isEligible = TRUE


\* C19: a list request whose query carries isEligible, which arrives as a
\* string, gets the one response 422 labelled "Query" and its controller is
\* not invoked; so the filter getForms builds for a list request that
\* reached it never has isEligible.
C19_EligibleQueryRejected ==
  \A r \in Reqs :
    Arrived(r) /\ route[r] = "getCustomerForms" =>
      /\ raw[r].query.isEligible # Undef =>
           /\ Done(r)
           /\ Len(sends[r]) = 1
           /\ sends[r][1].status = Num(ClientErrorUnprocessableEntity)
           /\ Contains(sends[r][1].body.message, "Query")
           /\ calls[r].controller = 0
           /\ svc[r] = NoResponse
      /\ calls[r].controller = 1 =>
           /\ raw[r].query.isEligible = Undef
           /\ where(seen[r].query).isEligible = Undef

\* the list request with isEligible=false and a valid status was rejected,
\* and a list request with a status filter reached getForms
C19_Witness ==
  /\ \E r \in Reqs :
       /\ Done(r) /\ route[r] = "getCustomerForms"
       /\ raw[r].query.isEligible = Str("false")
       /\ sends[r][1].status = Num(ClientErrorUnprocessableEntity)
       /\ calls[r].controller = 0
  /\ \E r \in Reqs :
       /\ Done(r) /\ route[r] = "getCustomerForms" /\ isSuccess(svc[r])
       /\ where(seen[r].query) = [status |-> Str("APPROVED"), isEligible |-> Undef]


\* the position of the first colon of the pieces m, 0 when there is none
FirstColon(m) ==
  IF \E i \in 1..Len(m) : m[i] = ":"
    THEN CHOOSE i \in 1..Len(m) : m[i] = ":" /\ \A j \in 1..(i - 1) : m[j] # ":"
    ELSE 0
\* the validation message of the facet request r was rejected at
Underlying(r) ==
  LET f == Facets[FirstFailing(r)] IN parse(TheSchema(r)[f].shape, raw[r][f]).message

\* C20: the message of a 422 is the text of the underlying validation
\* message before its first colon, then " in [<Label>]: ", then the text
\* between its first and its second colon and nothing of what follows a
\* second colon.
C20_MessageKeepsFirstTwoParts ==
  \A r \in Reqs :
    Arrived(r) /\ TheSchema(r).defined /\ Invalid(r) =>
      LET m == Underlying(r)
          k == FirstColon(m)
          rest == SubSeq(m, k + 1, Len(m))
          k2 == FirstColon(rest)
          errors == IF k2 = 0 THEN rest ELSE SubSeq(rest, 1, k2 - 1)
      IN /\ k > 0
         /\ sends[r][1].body.message =
              Text(SubSeq(m, 1, k - 1)
                   \o <<" in [", Label(Facets[FirstFailing(r)]), "]", ":", " ">>
                   \o errors)

\* the list request with sortOrder "a:b" was rejected: the validation
\* message has a second colon, inside the received value, and the response
\* message ends at the "a" before it
C20_Witness ==
  \E r \in Reqs :
    /\ Done(r) /\ route[r] = "getCustomerForms"
    /\ raw[r].query.sortOrder = Text(<<"a", ":", "b">>)
    /\ Contains(Text(Underlying(r)), "b")
    /\ Contains(sends[r][1].body.message, "Query")
    /\ Contains(sends[r][1].body.message, "a")
    /\ ~Contains(sends[r][1].body.message, "b")

====
